---- MODULE Spec2Model ----
(***************************************************************************)
(* Verification model of suomiton/effective-physics.                        *)
(*                                                                          *)
(* The parts of the program are modelled each with its own next-state      *)
(* relation over its own variables:                                         *)
(*   SpecSand    PhysicsUtils.dropSand / _findValidSandPosition (shared.ts) *)
(*   SpecButton  the same with dropSand also called as the sand button      *)
(*               calls it, with Constants.SAND.GRAIN_SIZE (app.ts)          *)
(*   SpecRender  the renderer built by createWebGLRenderer                  *)
(*               (renderer-webgl.ts)                                        *)
(*   SpecLoop    the same with run also called on a running loop            *)
(*   SpecLegacy  the legacy RendererWebGL renderer (renderer-webgl.js)      *)
(*   SpecDrag    InteractiveWorld and its drag handlers                     *)
(*               (interactive-world.ts, interactive-block.ts); the drag     *)
(*               handlers of CanvasManager.setupMouseEvents are the same    *)
(*               code over module-level variables                           *)
(*   SpecManager the collection operations of InteractiveWorld alone        *)
(*   SpecBlock   one InteractiveBlock and its world (interactive-block.ts)  *)
(*   SpecApp     initApp / initializeRenderer and the render loops they     *)
(*               start on the page's canvas (app.ts)                        *)
(***************************************************************************)
EXTENDS Integers, Sequences, FiniteSets, TLC

(***************************************************************************)
(* Bounds of the model                                                      *)
(***************************************************************************)
\* dropSand: largest particleCount, maxAttempts, particleRadius
MaxParticles == 2
MaxAttempts == 2
MaxParticleRadius == 1
\* dropSand: number of clicks on the sand button
MaxDrops == 2
\* renderers: bodies ever created, meshes ever created, callbacks pending
MaxBodies == 2
MaxMeshes == 2
MaxPending == 1
\* interactive world: constraints in the physics world
MaxConstraints == 2
\* interactive world: ids generated by create
MaxGenerated == 1
\* application: initializeRenderer calls followed after one page load
MaxInits == 6

(***************************************************************************)
(* Program constants                                                        *)
(***************************************************************************)
CanvasWidth == 640
CanvasHeight == 480
\* y of the sand cluster centre
ClusterCenterY == 100
\* SAND.GRAIN_SIZE of the legacy constants (constants.js)
LegacyGrainSize == 2

(***************************************************************************)
(* State                                                                    *)
(***************************************************************************)
\* PhysicsUtils.dropSand
VARIABLES
  sandPc,          \* position in dropSand: "idle", "loop", "find", "ret"
  particleCount,   \* N of the running dropSand call
  maxAttempts,     \* K
  clusterRadius,   \* R
  particleRadius,  \* r
  positions,       \* the positions list of the running call
  sandI,           \* loop variable i of dropSand
  attempt,         \* loop variable attempt of _findValidSandPosition
  validPos,        \* result of _findValidSandPosition: <<pos>>, or <<>> for null
  sandAdded,       \* bodies added to the world by the running / last call
  sandWorld,       \* number of sand bodies in the world from earlier calls
  drops,           \* number of dropSand calls started
  candidate        \* <<pos>>: the candidate the last step computed from the
                   \* two random values it drew; <<>> if it drew none
                   \* (observation only)

sandVars == <<sandPc, particleCount, maxAttempts, clusterRadius, particleRadius,
              positions, sandI, attempt, validPos, sandAdded, sandWorld, drops,
              candidate>>

\* the Matter world a renderer reads
VARIABLES
  worldBodies,   \* Matter.Composite.allBodies(engine.world), in order
  nextBodyId     \* Matter's body id counter

worldVars == <<worldBodies, nextBodyId>>

\* the renderer built by createWebGLRenderer
VARIABLES
  bodies,                  \* rendererInstance.bodies: Map body id -> mesh
  scene,                   \* the meshes among scene.children
  sceneHelpers,            \* the lights and the grid among scene.children
  meshes,                  \* every mesh created so far; a mesh is its index
  frameRequestId,          \* rendererInstance.frameRequestId, 0 for undefined
  pendingFrames,           \* requestAnimationFrame callbacks not yet run
  usesOrthographicCamera,  \* config.usesOrthographicCamera
  frame                    \* what the last operation did (observation only)

renderVars == <<bodies, scene, sceneHelpers, meshes, frameRequestId,
                pendingFrames, usesOrthographicCamera, frame>>

\* the legacy RendererWebGL renderer (renderer-webgl.js)
VARIABLES
  jsBodies,                  \* webGLRenderer.bodies: Map body id -> mesh
  jsScene,                   \* the body meshes among scene.children
  jsMeshes,                  \* every mesh created so far; a mesh is its index
  jsUsesOrthographicCamera,  \* config.usesOrthographicCamera
  jsFrame                    \* what the last operation did (observation only)

legacyVars == <<jsBodies, jsScene, jsMeshes, jsUsesOrthographicCamera, jsFrame>>

\* InteractiveWorld and its drag handlers
VARIABLES
  objects,          \* InteractiveWorld.objects: the blocks, in insertion order
  world,            \* InteractiveWorld.world: its bodies and constraints
  dragConstraint,   \* id of the stored constraint, 0 for null
  isDragging,       \* InteractiveWorld.isDragging
  currentRenderer,  \* window.currentRenderer
  pointer,          \* what the last pointer event did (observation only)
  call              \* what the last call of the manager did (observation only)

dragVars == <<objects, world, dragConstraint, isDragging, currentRenderer,
              pointer, call>>

\* InteractiveWorld.create, and the rest of the Matter world
VARIABLES
  idCounter,    \* InteractiveWorld.idCounter
  otherBodies   \* the bodies of the world no InteractiveBlock owns: the
                \* boundary walls, sand particles

managerVars == <<idCounter, otherBodies>>

\* one InteractiveBlock and the world it is added to
VARIABLES
  interactiveBlock,  \* <<>> before construction, else <<b>> with b the block:
               \* [config, body, isAddedToWorld, world]
  blockWorld,  \* ids of the bodies in the Matter world
  blockCall    \* what the last operation did (observation only)

blockVars == <<interactiveBlock, blockWorld, blockCall>>

\* initApp / initializeRenderer and the page they run on
VARIABLES
  initPending,    \* back-end of the initializeRenderer call not yet executed,
                  \* "none" when no call is outstanding
  render2D,       \* window.render2D is not null
  renderWebGL,    \* window.renderWebGL is not null
  canvasContext,  \* context type the canvas has handed out: "none", "2d",
                  \* "webgl"
  activeLoops,    \* per back-end, the render loops with a frame callback
                  \* pending: renderers started and never stopped
  lastFrameOf,    \* back-end of the render loop that ran last on the canvas
  inits,          \* initializeRenderer calls executed since the page loaded
  appCall         \* what the last operation did (observation only)

appVars == <<initPending, render2D, renderWebGL, canvasContext, activeLoops,
             lastFrameOf, inits, appCall>>

vars == <<sandVars, worldVars, renderVars, legacyVars, dragVars, managerVars,
          blockVars, appVars>>

\* what the operations of one part leave alone
notSand == <<worldVars, renderVars, legacyVars, dragVars, managerVars,
             blockVars, appVars>>
notRender == <<sandVars, legacyVars, dragVars, managerVars, blockVars, appVars>>
notLegacy == <<sandVars, renderVars, dragVars, managerVars, blockVars, appVars>>
notDrag == <<sandVars, worldVars, renderVars, legacyVars, managerVars,
             blockVars, appVars>>
notManager == <<sandVars, worldVars, renderVars, legacyVars, blockVars, appVars>>
notBlock == <<sandVars, worldVars, renderVars, legacyVars, dragVars,
              managerVars, appVars>>
notApp == <<sandVars, worldVars, renderVars, legacyVars, managerVars,
            blockVars, objects, world, dragConstraint, isDragging, pointer,
            call>>

(***************************************************************************)
(*                          PLACEMENT SAMPLER                               *)
(*                                                                          *)
(* Coordinates of sand positions are kept multiplied by Scale, so that the  *)
(* unit vectors (cos a, sin a) drawn below are exact: Directions holds      *)
(* Scale*(cos a, sin a) for twelve angles a in [0, 2*pi), all with          *)
(* cos^2 + sin^2 = 1 exactly (the 3-4-5 triangle).                          *)
(***************************************************************************)
Scale == 5

\* the cluster radii tried (dropSand itself passes 80)
ClusterRadii == {1, 2}

\* the value of a member an object does not have; arithmetic on it gives NaN,
\* and every comparison with NaN is false
Undefined == -1

\* Constants.SAND.GRAIN_SIZE: SAND has GRAIN_SIZE_MIN, GRAIN_SIZE_MAX and
\* COLORS, and no member GRAIN_SIZE
GrainSize == Undefined

Directions ==
  { <<5, 0>>, <<4, 3>>, <<3, 4>>, <<0, 5>>, <<-3, 4>>, <<-4, 3>>,
    <<-5, 0>>, <<-4, -3>>, <<-3, -4>>, <<0, -5>>, <<3, -4>>, <<4, -3>> }

\* Math.random() * 2 * Math.PI : the angle, as its scaled unit vector
AngleDraws == Directions

\* faulty variant: the polar radius is drawn from the diameter, not the radius
RadiusDrawsDiameter(radius) == 0 .. (2 * radius)

\* Math.random() * radius : a value in [0, radius)
RadiusDraws(radius) == 0 .. (radius - 1)

\* xPos = center.x + r * cos(angle), yPos = center.y + r * sin(angle)  (scaled)
CandidatePos(center, r, dir) ==
  <<center[1] + r * dir[1], center[2] + r * dir[2]>>

\* dx * dx + dy * dy, of scaled coordinates
DistSq(p, q) == (p[1] - q[1]) * (p[1] - q[1]) + (p[2] - q[2]) * (p[2] - q[2])

\* faulty variant: the separation test compares with one particle radius, not two
TooCloseOneRadius(placed, pos, pRadius) ==
  \E i \in 1 .. Len(placed) :
    DistSq(pos, placed[i]) < (pRadius * Scale) * (pRadius * Scale)

\* the inner loop: Math.sqrt(dx*dx + dy*dy) < particleRadius * 2 for some p.
\* Both sides are >= 0, so the comparison is made on the squares.
TooClose(placed, pos, pRadius) ==
  /\ pRadius # Undefined
  /\ \E i \in 1 .. Len(placed) :
       DistSq(pos, placed[i]) < (2 * pRadius * Scale) * (2 * pRadius * Scale)

\* clusterCenter = { x: canvas.width / 2, y: 100 }   (scaled)
ClusterCenter == <<(CanvasWidth \div 2) * Scale, ClusterCenterY * Scale>>

SandInit ==
  /\ sandPc = "idle"
  /\ particleCount = 0
  /\ maxAttempts = 0
  /\ clusterRadius = 0
  /\ particleRadius = 0
  /\ positions = <<>>
  /\ sandI = 0
  /\ attempt = 0
  /\ validPos = <<>>
  /\ sandAdded = <<>>
  /\ sandWorld = 0
  /\ drops = 0
  /\ candidate = <<>>

\* faulty variant: the positions list outlives the call
DropSandStartKeepsPositions ==
  /\ sandPc = "idle"
  /\ drops < MaxDrops
  /\ \E n \in 1 .. MaxParticles, k \in 1 .. MaxAttempts,
        R \in ClusterRadii, r \in 0 .. MaxParticleRadius :
       /\ particleCount' = n
       /\ maxAttempts' = k
       /\ clusterRadius' = R
       /\ particleRadius' = r
  /\ positions' = positions
  /\ sandWorld' = sandWorld + Len(sandAdded)
  /\ sandAdded' = <<>>
  /\ sandI' = 0
  /\ attempt' = 0
  /\ validPos' = <<>>
  /\ drops' = drops + 1
  /\ candidate' = <<>>
  /\ sandPc' = "loop"
  /\ UNCHANGED notSand

\* click on the sand button: dropSand starts with a fresh, empty positions list
DropSandStart ==
  /\ sandPc = "idle"
  /\ drops < MaxDrops
  /\ \E n \in 1 .. MaxParticles, k \in 1 .. MaxAttempts,
        R \in ClusterRadii, r \in 0 .. MaxParticleRadius :
       /\ particleCount' = n
       /\ maxAttempts' = k
       /\ clusterRadius' = R
       /\ particleRadius' = r
  /\ positions' = <<>>
  /\ sandWorld' = sandWorld + Len(sandAdded)
  /\ sandAdded' = <<>>
  /\ sandI' = 0
  /\ attempt' = 0
  /\ validPos' = <<>>
  /\ drops' = drops + 1
  /\ candidate' = <<>>
  /\ sandPc' = "loop"
  /\ UNCHANGED notSand

\* dropSand as the sand button calls it: particleRadius is
\* Constants.SAND.GRAIN_SIZE; particleCount, maxAttempts and clusterRadius
\* (500, 300 and 80 in the code) are drawn from the scaled-down ranges
DropSand ==
  /\ sandPc = "idle"
  /\ drops < MaxDrops
  /\ \E n \in 1 .. MaxParticles, k \in 1 .. MaxAttempts, R \in ClusterRadii :
       /\ particleCount' = n
       /\ maxAttempts' = k
       /\ clusterRadius' = R
  /\ particleRadius' = GrainSize
  /\ positions' = <<>>
  /\ sandWorld' = sandWorld + Len(sandAdded)
  /\ sandAdded' = <<>>
  /\ sandI' = 0
  /\ attempt' = 0
  /\ validPos' = <<>>
  /\ drops' = drops + 1
  /\ candidate' = <<>>
  /\ sandPc' = "loop"
  /\ UNCHANGED notSand

\* for (let i = 0; i < particleCount; i++): enter _findValidSandPosition, or return
DropSandLoop ==
  /\ sandPc = "loop"
  /\ IF sandI < particleCount
       THEN /\ sandPc' = "find"
            /\ attempt' = 0
       ELSE /\ sandPc' = "idle"
            /\ UNCHANGED attempt
  /\ candidate' = <<>>
  /\ UNCHANGED <<particleCount, maxAttempts, clusterRadius, particleRadius,
                 positions, sandI, validPos, sandAdded, sandWorld, drops, notSand>>

\* one iteration of the attempt loop of _findValidSandPosition
FindAttempt ==
  /\ sandPc = "find"
  /\ attempt < maxAttempts
  /\ \E dir \in AngleDraws, r \in RadiusDraws(clusterRadius) :
       LET pos == CandidatePos(ClusterCenter, r, dir) IN
         /\ candidate' = <<pos>>
         /\ IF ~TooClose(positions, pos, particleRadius)
              THEN /\ positions' = Append(positions, pos)
                   /\ validPos' = <<pos>>
                   /\ sandPc' = "ret"
                   /\ UNCHANGED attempt
              ELSE /\ attempt' = attempt + 1
                   /\ UNCHANGED <<positions, validPos, sandPc>>
  /\ UNCHANGED <<particleCount, maxAttempts, clusterRadius, particleRadius,
                 sandI, sandAdded, sandWorld, drops, notSand>>

\* faulty variant: an exhausted search starts over instead of giving up
FindExhaustedRetry ==
  /\ sandPc = "find"
  /\ ~(attempt < maxAttempts)
  /\ attempt' = 0
  /\ candidate' = <<>>
  /\ UNCHANGED <<sandPc, validPos, particleCount, maxAttempts, clusterRadius,
                 particleRadius, positions, sandI, sandAdded, sandWorld, drops,
                 notSand>>

\* the attempt loop ends with attempt = maxAttempts: return null
FindExhausted ==
  /\ sandPc = "find"
  /\ ~(attempt < maxAttempts)
  /\ validPos' = <<>>
  /\ sandPc' = "ret"
  /\ candidate' = <<>>
  /\ UNCHANGED <<particleCount, maxAttempts, clusterRadius, particleRadius,
                 positions, sandI, attempt, sandAdded, sandWorld, drops, notSand>>

\* if (!validPos) continue; else Matter.World.add(world, Bodies.circle(...))
DropSandPlace ==
  /\ sandPc = "ret"
  /\ IF validPos = <<>>
       THEN UNCHANGED sandAdded
       ELSE sandAdded' =
              Append(sandAdded, [x |-> validPos[1][1], y |-> validPos[1][2],
                                 circleRadius |-> particleRadius])
  /\ sandI' = sandI + 1
  /\ sandPc' = "loop"
  /\ candidate' = <<>>
  /\ UNCHANGED <<particleCount, maxAttempts, clusterRadius, particleRadius,
                 positions, attempt, validPos, sandWorld, drops, notSand>>

SandStep == DropSandLoop \/ FindAttempt \/ FindExhausted \/ DropSandPlace

SandNext == DropSandStart \/ SandStep

\* the calls with drawn parameters, and the call the sand button makes
ButtonNext == SandNext \/ DropSand

(***************************************************************************)
(* Statements about the placement sampler                                   *)
(***************************************************************************)
\* every point a draw can produce for a cluster of the given radius
Candidates(radius) ==
  { CandidatePos(ClusterCenter, r, dir) :
      r \in RadiusDraws(radius), dir \in AngleDraws }

RECURSIVE CanPlace(_, _, _, _)
\* TRUE iff `placed` can be extended by n more candidate points, every two
\* points of the result at distance >= 2 * particleRadius
CanPlace(placed, n, radius, pRadius) ==
  \/ n = 0
  \/ \E p \in Candidates(radius) :
       /\ ~(\E i \in 1 .. Len(placed) :
              DistSq(p, placed[i]) < (2 * pRadius * Scale) * (2 * pRadius * Scale))
       /\ CanPlace(Append(placed, p), n - 1, radius, pRadius)

\* whether the disk of the given radius can hold n points pairwise >= 2r apart
DiskHolds ==
  [n \in 1 .. MaxParticles, radius \in ClusterRadii,
   pRadius \in 0 .. MaxParticleRadius |-> CanPlace(<<>>, n, radius, pRadius)]

\* C2: after every call of _findValidSandPosition on a list that started
\* empty, every two distinct points of the positions list are at distance
\* >= 2 * particleRadius from each other.
C2_NoOverlap ==
  \A i, j \in 1 .. Len(positions) :
    i # j =>
      DistSq(positions[i], positions[j])
        >= (2 * particleRadius * Scale) * (2 * particleRadius * Scale)

\* two points were accepted with a positive particle radius, the second one
\* after a candidate had been rejected
C2_Witness ==
  /\ Len(positions) = 2
  /\ particleRadius >= 1
  /\ sandPc = "ret"
  /\ validPos # <<>>
  /\ attempt > 0

\* C22: a dropSand call made with the configured particle radius creates
\* bodies of radius 2 whose centres are pairwise at distance >= 4, and, the
\* disk being too small for the particles requested (a scaled disk holds one
\* grain of radius 2 at most), a finished call has created fewer bodies than
\* it was asked for.
C22_ConfiguredDrop ==
  (drops > 0 /\ particleRadius = GrainSize) =>
  /\ \A i \in 1 .. Len(sandAdded) :
       sandAdded[i].circleRadius = LegacyGrainSize
  /\ \A i, j \in 1 .. Len(sandAdded) :
       i # j =>
         DistSq(<<sandAdded[i].x, sandAdded[i].y>>,
                <<sandAdded[j].x, sandAdded[j].y>>)
           >= (2 * LegacyGrainSize * Scale) * (2 * LegacyGrainSize * Scale)
  /\ (sandPc = "idle" /\ drops > 0 /\ particleCount >= 2)
       => Len(sandAdded) < particleCount

\* what one iteration of the attempt loop does with its candidate: the
\* positions list and the value returned (<<>> while nothing is returned),
\* from the list, the particle radius and the candidate alone
AttemptOutcome(placed, pRadius, cand) ==
  IF \E i \in 1 .. Len(placed) :
       pRadius # Undefined
         /\ DistSq(cand, placed[i])
              < (2 * pRadius * Scale) * (2 * pRadius * Scale)
    THEN [positions |-> placed, validPos |-> <<>>, accepted |-> FALSE]
    ELSE [positions |-> Append(placed, cand), validPos |-> <<cand>>,
          accepted |-> TRUE]

\* C23: dropSand is a function of its random values: the list of a call
\* starts empty whatever earlier calls accepted; an attempt's outcome is
\* determined by the call's own list, the particle radius and the candidate
\* its two random values give; the body added is determined by the position
\* returned; no other step changes the list or the bodies.
C23_Deterministic ==
  [][/\ (DropSandStart \/ DropSand)
          => (positions' = <<>> /\ sandAdded' = <<>>)
     /\ FindAttempt
          => LET out == AttemptOutcome(positions, particleRadius,
                                       candidate'[1])
             IN /\ candidate'[1] \in Candidates(clusterRadius)
                /\ positions' = out.positions
                /\ sandAdded' = sandAdded
                /\ IF out.accepted
                     THEN validPos' = out.validPos /\ attempt' = attempt
                     ELSE attempt' = attempt + 1 /\ sandPc' = "find"
     /\ DropSandPlace
          => /\ positions' = positions
             /\ sandAdded' =
                  IF validPos = <<>> THEN sandAdded
                  ELSE Append(sandAdded,
                              [x |-> validPos[1][1], y |-> validPos[1][2],
                               circleRadius |-> particleRadius])
     /\ (DropSandLoop \/ FindExhausted)
          => UNCHANGED <<positions, sandAdded>>]_vars

\* in a second call, made after a call that added bodies, a position has
\* been accepted and the candidate of a later attempt rejected
C23_Witness ==
  /\ drops = 2
  /\ sandWorld > 0
  /\ particleRadius >= 1
  /\ Len(positions) = 1
  /\ candidate # <<>>
  /\ attempt > 0
  /\ sandPc = "find"

\* C3: every accepted point lies within distance clusterRadius of the
\* cluster centre.
C3_Containment ==
  \A i \in 1 .. Len(positions) :
    DistSq(positions[i], ClusterCenter)
      <= (clusterRadius * Scale) * (clusterRadius * Scale)

\* a point off the centre was accepted and returned
C3_Witness ==
  /\ sandPc = "ret"
  /\ validPos # <<>>
  /\ DistSq(validPos[1], ClusterCenter) > 0

\* the attempt counter never passes maxAttempts, and the bodies added never
\* outnumber the particles tried, which never outnumber particleCount
SandCounts ==
  /\ attempt <= maxAttempts
  /\ Len(sandAdded) <= sandI
  /\ sandI <= particleCount
  /\ sandPc \in {"loop", "idle"} => Len(sandAdded) = Len(positions)

\* a finished call on a disk that cannot hold particleCount separated points
\* has added strictly fewer bodies
SandUnderFill ==
  (sandPc = "idle" /\ drops > 0
     /\ ~DiskHolds[particleCount, clusterRadius, particleRadius])
    => Len(sandAdded) < particleCount

\* a particle whose attempts all failed adds no body and the loop moves on
SandSkip ==
  (sandPc = "ret" /\ validPos = <<>>)
    => (sandAdded' = sandAdded /\ sandI' = sandI + 1 /\ sandPc' = "loop")

\* C4: dropSand terminates; each particle makes at most maxAttempts attempts;
\* a particle whose attempts all fail is skipped; at most particleCount
\* bodies are added, and strictly fewer when the disk cannot hold
\* particleCount points that are pairwise >= 2 * particleRadius apart.
C4_DropSandTerminates ==
  /\ [](SandCounts /\ SandUnderFill)
  /\ [][SandSkip]_sandVars
  /\ [](sandPc # "idle" => <>(sandPc = "idle"))

\* a call has returned with a skipped particle on a disk that was too small
C4_Witness ==
  /\ sandPc = "idle"
  /\ drops > 0
  /\ particleCount = MaxParticles
  /\ ~DiskHolds[particleCount, clusterRadius, particleRadius]
  /\ Len(sandAdded) > 0
  /\ Len(sandAdded) < particleCount

(***************************************************************************)
(*                     THE PHYSICS WORLD SEEN BY A RENDERER                 *)
(*                                                                          *)
(* Matter.Composite.allBodies(engine.world) is a list of bodies.  A body    *)
(* carries what the renderers read: id, position, angle, circleRadius and   *)
(* vertices (here their number, and whether an entry of the array is        *)
(* null).                                                                   *)
(***************************************************************************)
BodyShapes ==
  { [circleRadius |-> 10, nVertices |-> 10, nullVertex |-> FALSE],
    [circleRadius |-> 0, nVertices |-> 4, nullVertex |-> FALSE],
    [circleRadius |-> 0, nVertices |-> 2, nullVertex |-> FALSE],
    [circleRadius |-> 0, nVertices |-> 4, nullVertex |-> TRUE] }

\* position and angle of a body: <<x, y, angle>>
BodyPoses == { <<0, 0, 0>>, <<320, 240, 1>> }

WorldInit ==
  /\ worldBodies = <<>>
  /\ nextBodyId = 1

WorldIds == { worldBodies[i].id : i \in 1 .. Len(worldBodies) }

RemoveAt(seq, i) == SubSeq(seq, 1, i - 1) \o SubSeq(seq, i + 1, Len(seq))

\* Matter.World.add(world, body) of a new body
WorldAdd(shape, pose) ==
  /\ nextBodyId <= MaxBodies
  /\ worldBodies' =
       Append(worldBodies,
              [id |-> nextBodyId, circleRadius |-> shape.circleRadius,
               nVertices |-> shape.nVertices, nullVertex |-> shape.nullVertex,
               x |-> pose[1], y |-> pose[2], angle |-> pose[3]])
  /\ nextBodyId' = nextBodyId + 1

\* Matter.World.remove(world, body)
WorldRemove(i) ==
  /\ worldBodies' = RemoveAt(worldBodies, i)
  /\ UNCHANGED nextBodyId

\* a step of the engine moves and turns a body
WorldMove(i, pose) ==
  /\ <<worldBodies[i].x, worldBodies[i].y, worldBodies[i].angle>> # pose
  /\ worldBodies' =
       [worldBodies EXCEPT ![i].x = pose[1], ![i].y = pose[2],
                           ![i].angle = pose[3]]
  /\ UNCHANGED nextBodyId

WorldChange ==
  \/ \E shape \in BodyShapes, pose \in BodyPoses : WorldAdd(shape, pose)
  \/ \E i \in 1 .. Len(worldBodies) : WorldRemove(i)
  \/ \E i \in 1 .. Len(worldBodies), pose \in BodyPoses : WorldMove(i, pose)

(***************************************************************************)
(*              THE RENDERER BUILT BY createWebGLRenderer                   *)
(***************************************************************************)
\* the observation record of an operation that did not run updateScene
Quiet(op) ==
  [op |-> op, again |-> FALSE, threw |-> FALSE, attempted |-> {},
   created |-> {}, disposed |-> {}, materials |-> 0, changed |-> FALSE]

\* createWebGLRenderer(engine, canvas).init(), as app.ts builds it: no
\* options, so config.usesOrthographicCamera has its default
RenderInit ==
  /\ bodies = <<>>
  /\ scene = {}
  /\ sceneHelpers = {"ambientLight", "directionalLight", "gridHelper"}
  /\ meshes = <<>>
  /\ frameRequestId = 0
  /\ pendingFrames = {}
  /\ usesOrthographicCamera = TRUE
  /\ frame = Quiet("init")

\* createMeshForBody: the material is allocated first; then a circle, an
\* extruded polygon (Matter.Vector.sub raises on a null vertex), or undefined
CreateMeshForBody(body) ==
  IF body.circleRadius # 0
    THEN [materials |-> 1, threw |-> FALSE,
          mesh |-> <<[geometry |-> "CircleGeometry", position |-> <<0, 0, 0>>,
                      rotationX |-> 0, rotationZ |-> 0,
                      geometryDisposed |-> 0, materialDisposed |-> 0]>>]
    ELSE IF body.nVertices > 2
      THEN IF body.nullVertex
             THEN [materials |-> 1, threw |-> TRUE, mesh |-> <<>>]
             ELSE [materials |-> 1, threw |-> FALSE,
                   mesh |-> <<[geometry |-> "ExtrudeGeometry",
                               position |-> <<0, 0, -1>>,
                               rotationX |-> 90, rotationZ |-> 0,
                               geometryDisposed |-> 0, materialDisposed |-> 0]>>]
      ELSE [materials |-> 1, threw |-> FALSE, mesh |-> <<>>]

\* mesh.position.set(body.position.x, body.position.y, 0);
\* mesh.rotation.z = body.angle
MeshTransform(mesh, body) ==
  [mesh EXCEPT !.position = <<body.x, body.y, 0>>, !.rotationZ = body.angle]

\* the body of bodies.forEach in updateScene, for one body; st carries the
\* cache, the scene, the meshes and what has been observed so far
UpdateBody(st, body) ==
  LET cached == body.id \in DOMAIN st.bodies
      made == CreateMeshForBody(body)
      id == Len(st.meshes) + 1
      st1 ==
        IF cached THEN st
        ELSE IF made.threw
          THEN [st EXCEPT !.threw = TRUE,
                          !.materials = @ + made.materials,
                          !.attempted = @ \cup {body.id}]
        ELSE IF made.mesh = <<>>
          THEN [st EXCEPT !.materials = @ + made.materials,
                          !.attempted = @ \cup {body.id}]
        ELSE [st EXCEPT !.materials = @ + made.materials,
                        !.attempted = @ \cup {body.id},
                        !.created = @ \cup {id},
                        !.meshes = Append(@, made.mesh[1]),
                        !.scene = @ \cup {id},
                        !.bodies = [b \in DOMAIN @ \cup {body.id} |->
                                      IF b = body.id THEN id ELSE @[b]]]
  IN IF body.id \in DOMAIN st1.bodies
       THEN [st1 EXCEPT !.meshes[st1.bodies[body.id]] = MeshTransform(@, body)]
       ELSE st1

RECURSIVE UpdateBodies(_, _, _)
\* bodies.forEach(...): an error raised for one body ends the loop
UpdateBodies(st, list, k) ==
  IF k > Len(list) \/ st.threw
    THEN st
    ELSE UpdateBodies(UpdateBody(st, list[k]), list, k + 1)

\* scene.remove(mesh); mesh.geometry.dispose(); mesh.material.dispose()
DisposeMeshes(ms, ids) ==
  [m \in DOMAIN ms |->
     IF m \in ids
       THEN [ms[m] EXCEPT !.geometryDisposed = @ + 1, !.materialDisposed = @ + 1]
       ELSE ms[m]]

\* faulty variant: stale meshes are disposed but their cache entries are kept
RemoveStaleKeepEntry(st, currentBodyIds) ==
  LET stale == { b \in DOMAIN st.bodies : b \notin currentBodyIds }
      gone == { st.bodies[b] : b \in stale }
  IN [st EXCEPT !.scene = @ \ gone,
                !.meshes = DisposeMeshes(@, gone),
                !.disposed = @ \cup gone]

\* this.bodies.forEach((mesh, id) => { if (!currentBodyIds.has(id)) ... })
RemoveStale(st, currentBodyIds) ==
  LET stale == { b \in DOMAIN st.bodies : b \notin currentBodyIds }
      gone == { st.bodies[b] : b \in stale }
  IN [st EXCEPT !.scene = @ \ gone,
                !.meshes = DisposeMeshes(@, gone),
                !.disposed = @ \cup gone,
                !.bodies = [b \in DOMAIN @ \ stale |-> @[b]]]

\* updateScene, from the renderer's current state over the current body list
UpdateSceneResult ==
  LET st0 == [bodies |-> bodies, scene |-> scene, meshes |-> meshes,
              threw |-> FALSE, attempted |-> {}, created |-> {},
              disposed |-> {}, materials |-> 0]
      st1 == UpdateBodies(st0, worldBodies, 1)
  IN IF st1.threw THEN st1 ELSE RemoveStale(st1, WorldIds)

\* the meshes updateScene would have to create, at most
Uncached == { b \in WorldIds : b \notin DOMAIN bodies }

\* the effect of one updateScene call on the renderer
UpdateSceneEffect ==
  /\ Len(meshes) + Cardinality(Uncached) <= MaxMeshes
  /\ LET st == UpdateSceneResult IN
       /\ bodies' = st.bodies
       /\ scene' = st.scene
       /\ meshes' = st.meshes
       /\ frame' = [op |-> "updateScene", again |-> frame.op = "updateScene",
                    threw |-> st.threw, attempted |-> st.attempted,
                    created |-> st.created, disposed |-> st.disposed,
                    materials |-> st.materials,
                    changed |-> st.bodies # bodies \/ st.scene # scene]

\* a request id that names no pending callback and is not the stored one
FreshRequestId ==
  CHOOSE n \in 1 .. (Cardinality(pendingFrames) + 2) :
    n \notin pendingFrames /\ n # frameRequestId

\* a direct call of rendererInstance.updateScene()
UpdateScene ==
  /\ UpdateSceneEffect
  /\ UNCHANGED <<sceneHelpers, frameRequestId, pendingFrames,
                 usesOrthographicCamera, worldVars, notRender>>

\* update(): frameRequestId = requestAnimationFrame(update); updateScene();
\* webglRenderer.render(scene, camera)
Update(pending) ==
  /\ frameRequestId' = FreshRequestId
  /\ pendingFrames' = pending \cup {FreshRequestId}
  /\ UpdateSceneEffect
  /\ UNCHANGED <<sceneHelpers, usesOrthographicCamera, worldVars, notRender>>

\* rendererInstance.run(): calls update() once, synchronously
Run ==
  /\ Cardinality(pendingFrames) < MaxPending
  /\ Update(pendingFrames)

\* rendererInstance.run() called while a loop is running: run has no guard,
\* so update() requests one more callback and overwrites frameRequestId
RunAgain ==
  /\ pendingFrames # {}
  /\ Cardinality(pendingFrames) <= MaxPending
  /\ Update(pendingFrames)

\* the browser runs a pending animation-frame callback
Frame ==
  \E id \in pendingFrames : Update(pendingFrames \ {id})

\* faulty variant: stop forgets the stored request without cancelling it
StopWithoutCancel ==
  /\ frameRequestId' = 0
  /\ UNCHANGED pendingFrames
  /\ LET all == { bodies[b] : b \in DOMAIN bodies } IN
       /\ scene' = scene \ all
       /\ meshes' = DisposeMeshes(meshes, all)
       /\ frame' = [Quiet("stop") EXCEPT !.disposed = all,
                                         !.changed = frameRequestId # 0]
  /\ bodies' = <<>>
  /\ sceneHelpers' = {}
  /\ UNCHANGED <<usesOrthographicCamera, worldVars, notRender>>

\* rendererInstance.stop(): cancel the stored request, then _disposeObjects()
Stop ==
  /\ frameRequestId' = 0
  /\ pendingFrames' = pendingFrames \ {frameRequestId}
  /\ LET all == { bodies[b] : b \in DOMAIN bodies } IN
       /\ scene' = scene \ all
       /\ meshes' = DisposeMeshes(meshes, all)
       /\ frame' = [Quiet("stop") EXCEPT !.disposed = all,
                                         !.changed = frameRequestId # 0]
  /\ bodies' = <<>>
  /\ sceneHelpers' = {}
  /\ UNCHANGED <<usesOrthographicCamera, worldVars, notRender>>

\* the engine changes the body list between two operations of the renderer
RenderWorldChange ==
  /\ WorldChange
  /\ frame' = Quiet("world")
  /\ UNCHANGED <<bodies, scene, sceneHelpers, meshes, frameRequestId,
                 pendingFrames, usesOrthographicCamera, notRender>>

RenderNext == UpdateScene \/ Run \/ Frame \/ Stop \/ RenderWorldChange

\* the renderer with run also called on a running loop
LoopNext == RenderNext \/ RunAgain

(***************************************************************************)
(* Statements about the renderer built by createWebGLRenderer               *)
(***************************************************************************)
\* the bodies of the current body list
WorldBodySet == { worldBodies[i] : i \in 1 .. Len(worldBodies) }

\* whether createMeshForBody returns a mesh for the body
Builds(body) == CreateMeshForBody(body).mesh # <<>>

\* the meshes held by the cache
CachedMeshes == { bodies[b] : b \in DOMAIN bodies }

\* C5: one updateScene call over a body list in which cached bodies have
\* vanished and new bodies have appeared ends with the cache keys equal to
\* the ids of the current bodies whose mesh can be built, every cached mesh
\* in the scene and no mesh of a vanished body in the scene.
C5_SyncInOneCall ==
  frame.op = "updateScene" =>
    /\ DOMAIN bodies = { b.id : b \in { c \in WorldBodySet : Builds(c) } }
    /\ \A b \in DOMAIN bodies : bodies[b] \in scene
    /\ \A m \in scene : m \in CachedMeshes

\* C6: every mesh that has left the cache is out of the scene and has had
\* its geometry and its material disposed exactly once; every mesh in the
\* cache is in the scene, undisposed, and belongs to one body id only; no
\* mesh is in the scene without a cache entry.
C6_MeshLifecycle ==
  /\ \A m \in 1 .. Len(meshes) :
       IF m \in CachedMeshes
         THEN /\ m \in scene
              /\ meshes[m].geometryDisposed = 0
              /\ meshes[m].materialDisposed = 0
         ELSE /\ m \notin scene
              /\ meshes[m].geometryDisposed = 1
              /\ meshes[m].materialDisposed = 1
  /\ \A a, b \in DOMAIN bodies : bodies[a] = bodies[b] => a = b
  /\ scene \subseteq 1 .. Len(meshes)

\* updateScene has just removed the mesh of a vanished body, which left the
\* cache and the scene and was disposed, while another mesh stays cached
C6_Witness ==
  /\ frame.op = "updateScene"
  /\ frame.disposed # {}
  /\ CachedMeshes # {}
  /\ \A m \in frame.disposed :
       m \notin CachedMeshes /\ meshes[m].geometryDisposed = 1

\* C7: the second of two updateScene calls in a row over an unchanged body
\* list creates no mesh, allocates no graphics resource, disposes no mesh and
\* leaves the cache and the scene as they were.
C7_SecondCallIdle ==
  (frame.op = "updateScene" /\ frame.again) =>
    /\ frame.created = {}
    /\ frame.materials = 0
    /\ frame.disposed = {}
    /\ ~frame.changed

\* C8: when the mesh of one body cannot be built, the same updateScene call
\* still gives every other body its mesh and transform and removes the stale
\* meshes; the failing body gets no cache entry and its construction is
\* attempted in every call.
C8_FailureIsolated ==
  (frame.op = "updateScene" /\ \E b \in WorldBodySet : ~Builds(b)) =>
    /\ \A b \in WorldBodySet :
         IF Builds(b)
           THEN /\ b.id \in DOMAIN bodies
                /\ meshes[bodies[b.id]] = MeshTransform(meshes[bodies[b.id]], b)
           ELSE /\ b.id \notin DOMAIN bodies
                /\ b.id \in frame.attempted
    /\ DOMAIN bodies \subseteq WorldIds

\* C9: after updateScene in the centred orthographic mode the mesh of a body
\* at (x, y) with angle a is at (x - canvasWidth/2, canvasHeight/2 - y, 0)
\* with Z rotation -a.
C9_CenteredTransform ==
  (frame.op = "updateScene" /\ usesOrthographicCamera) =>
    \A b \in WorldBodySet :
      b.id \in DOMAIN bodies =>
        /\ meshes[bodies[b.id]].position
             = <<b.x - CanvasWidth \div 2, CanvasHeight \div 2 - b.y, 0>>
        /\ meshes[bodies[b.id]].rotationZ = -b.angle

\* the only frame callback pending, if any, is the one whose id is stored:
\* one loop at most is running, and stop can cancel it
SingleLoop == pendingFrames \subseteq {frameRequestId}

\* the state stop leaves: no stored request, no mesh, an empty scene
Stopped ==
  /\ frameRequestId = 0
  /\ bodies = <<>>
  /\ scene = {}
  /\ sceneHelpers = {}

\* C19: stop on a stopped renderer changes nothing; as long as run is not
\* called while a loop is running, one loop at most is running, and stop
\* then leaves no frame callback pending and frameRequestId undefined; the
\* loop executes updateScene only from a pending frame callback.
C19_StopIdempotent ==
  [][/\ (Stop /\ Stopped)
          => UNCHANGED <<bodies, scene, sceneHelpers, meshes, frameRequestId,
                         pendingFrames>>
     /\ (SingleLoop /\ ~(Run /\ pendingFrames # {})) => SingleLoop'
     /\ (Stop /\ SingleLoop) => (pendingFrames' = {} /\ frameRequestId' = 0)
     /\ Frame => pendingFrames # {}]_vars

\* stop has cancelled the pending frame callback of a running loop and
\* disposed the meshes the loop had created: nothing is pending
C19_Witness ==
  /\ frame.op = "stop"
  /\ frame.changed
  /\ frame.disposed # {}
  /\ pendingFrames = {}
  /\ frameRequestId = 0
  /\ Stopped

(***************************************************************************)
(*              THE LEGACY RENDERER RendererWebGL.create                    *)
(***************************************************************************)
\* before RendererWebGL.create: WEBGL_DEFAULTS
LegacyInit ==
  /\ jsBodies = <<>>
  /\ jsScene = {}
  /\ jsMeshes = <<>>
  /\ jsUsesOrthographicCamera = TRUE
  /\ jsFrame = [op |-> "none", created |-> {}, disposed |-> {}]

\* RendererWebGL.create(engine, canvas, options): config is WEBGL_DEFAULTS
\* overridden by options
LegacyCreate(options) ==
  /\ jsFrame.op = "none"
  /\ jsUsesOrthographicCamera' =
       IF options = <<>> THEN jsUsesOrthographicCamera ELSE options[1]
  /\ jsFrame' = [op |-> "init", created |-> {}, disposed |-> {}]
  /\ UNCHANGED <<jsBodies, jsScene, jsMeshes, worldVars, notLegacy>>

\* createMeshForBody of the legacy renderer: a circle, else a ShapeGeometry
\* of the vertices; an error (a null vertex) is caught and null is returned
LegacyCreateMeshForBody(body) ==
  IF body.circleRadius # 0
    THEN <<[geometry |-> "CircleGeometry", position |-> <<0, 0, 0>>,
            rotationX |-> 0, rotationZ |-> 0,
            geometryDisposed |-> 0, materialDisposed |-> 0]>>
    ELSE IF body.nVertices > 0 /\ ~body.nullVertex
      THEN <<[geometry |-> "ShapeGeometry", position |-> <<0, 0, 0>>,
              rotationX |-> 0, rotationZ |-> 0,
              geometryDisposed |-> 0, materialDisposed |-> 0]>>
      ELSE <<>>

\* faulty variant: the perspective branch keeps the physics y (no flip)
LegacyMeshTransformNoFlip(mesh, body, orthographic) ==
  IF orthographic
    THEN [mesh EXCEPT
            !.position = <<body.x - CanvasWidth \div 2,
                           CanvasHeight \div 2 - body.y, 0>>,
            !.rotationZ = -body.angle]
    ELSE [mesh EXCEPT !.position = <<body.x, body.y, 0>>,
                      !.rotationZ = -body.angle]

\* mesh.position.set(...) in either camera mode; mesh.rotation.z = -body.angle
LegacyMeshTransform(mesh, body, orthographic) ==
  IF orthographic
    THEN [mesh EXCEPT
            !.position = <<body.x - CanvasWidth \div 2,
                           CanvasHeight \div 2 - body.y, 0>>,
            !.rotationZ = -body.angle]
    ELSE [mesh EXCEPT !.position = <<body.x, CanvasHeight - body.y, 0>>,
                      !.rotationZ = -body.angle]

\* the body of bodies.forEach in the legacy updateScene, for one body
LegacyUpdateBody(st, body) ==
  LET made == LegacyCreateMeshForBody(body)
      id == Len(st.meshes) + 1
      st1 ==
        IF body.id \in DOMAIN st.bodies \/ made = <<>> THEN st
        ELSE [st EXCEPT !.created = @ \cup {id},
                        !.meshes = Append(@, made[1]),
                        !.scene = @ \cup {id},
                        !.bodies = [b \in DOMAIN @ \cup {body.id} |->
                                      IF b = body.id THEN id ELSE @[b]]]
  IN IF body.id \in DOMAIN st1.bodies
       THEN [st1 EXCEPT !.meshes[st1.bodies[body.id]] =
                           LegacyMeshTransform(@, body, jsUsesOrthographicCamera)]
       ELSE st1

RECURSIVE LegacyUpdateBodies(_, _, _)
LegacyUpdateBodies(st, list, k) ==
  IF k > Len(list)
    THEN st
    ELSE LegacyUpdateBodies(LegacyUpdateBody(st, list[k]), list, k + 1)

\* updateScene of the legacy renderer: add or update, then remove the meshes
\* of bodies that no longer exist
LegacyUpdateScene ==
  /\ jsFrame.op # "none"
  /\ Len(jsMeshes) + Cardinality({ b \in WorldIds : b \notin DOMAIN jsBodies })
       <= MaxMeshes
  /\ LET st0 == [bodies |-> jsBodies, scene |-> jsScene, meshes |-> jsMeshes,
                 created |-> {}, disposed |-> {}]
         st == RemoveStale(LegacyUpdateBodies(st0, worldBodies, 1), WorldIds)
     IN /\ jsBodies' = st.bodies
        /\ jsScene' = st.scene
        /\ jsMeshes' = st.meshes
        /\ jsFrame' = [op |-> "updateScene", created |-> st.created,
                       disposed |-> st.disposed]
  /\ UNCHANGED <<jsUsesOrthographicCamera, worldVars, notLegacy>>

\* stop of the legacy renderer: _disposeObjects()
LegacyStop ==
  /\ jsFrame.op # "none"
  /\ LET all == { jsBodies[b] : b \in DOMAIN jsBodies } IN
       /\ jsScene' = jsScene \ all
       /\ jsMeshes' = DisposeMeshes(jsMeshes, all)
       /\ jsFrame' = [op |-> "stop", created |-> {}, disposed |-> all]
  /\ jsBodies' = <<>>
  /\ UNCHANGED <<jsUsesOrthographicCamera, worldVars, notLegacy>>

\* the engine changes the body list between two operations of the renderer
LegacyWorldChange ==
  /\ WorldChange
  /\ jsFrame' = [op |-> IF jsFrame.op = "none" THEN "none" ELSE "world",
                 created |-> {}, disposed |-> {}]
  /\ UNCHANGED <<jsBodies, jsScene, jsMeshes, jsUsesOrthographicCamera,
                 notLegacy>>

LegacyNext ==
  \/ \E options \in {<<>>, <<TRUE>>, <<FALSE>>} : LegacyCreate(options)
  \/ LegacyUpdateScene
  \/ LegacyStop
  \/ LegacyWorldChange

\* C10: after updateScene of the legacy renderer every cached mesh of a body
\* at (x, y) with angle a has Z rotation -a and position
\* (x - canvasWidth/2, canvasHeight/2 - y, 0) with the orthographic camera,
\* (x, canvasHeight - y, 0) without it, whether the mesh was created in this
\* call or cached earlier.
C10_LegacyTransform ==
  jsFrame.op = "updateScene" =>
    \A b \in WorldBodySet :
      b.id \in DOMAIN jsBodies =>
        /\ jsMeshes[jsBodies[b.id]].rotationZ = -b.angle
        /\ jsMeshes[jsBodies[b.id]].position =
             IF jsUsesOrthographicCamera
               THEN <<b.x - CanvasWidth \div 2, CanvasHeight \div 2 - b.y, 0>>
               ELSE <<b.x, CanvasHeight - b.y, 0>>

\* a call without the orthographic camera has created the mesh of one body
\* and updated the mesh, cached earlier, of a body that has turned
C10_Witness ==
  /\ jsFrame.op = "updateScene"
  /\ ~jsUsesOrthographicCamera
  /\ jsFrame.created # {}
  /\ \E b \in WorldBodySet :
       /\ b.id \in DOMAIN jsBodies
       /\ jsBodies[b.id] \notin jsFrame.created
       /\ b.angle # 0

(***************************************************************************)
(*                INTERACTIVE WORLD AND ITS DRAG HANDLERS                   *)
(*                                                                          *)
(* A block is [id, body, isDraggable, isAddedToWorld]; its body is          *)
(* [id, type, x, y, half], `half` being half the side of a rectangle or the *)
(* radius of a circle.  Bodies keep angle 0.                                *)
(***************************************************************************)
BlockIds == {"a", "b"}

\* the configurations blocks are built from: a square "a", draggable or not,
\* and a draggable circle "b" that overlaps it
BlockConfigs ==
  { [id |-> t[1], type |-> t[2], x |-> t[3], y |-> t[4], half |-> 25,
     isDraggable |-> t[5]] :
      t \in { <<"a", "rectangle", 320, 240, TRUE>>,
               <<"a", "rectangle", 320, 240, FALSE>>,
               <<"b", "circle", 340, 250, TRUE>> } }

\* where the engine may carry a body
BlockPositions == { <<320, 240>>, <<340, 250>> }

\* clientX, clientY of pointer events; the canvas is at the page origin
ClientPoints == { <<320, 240>>, <<700, 240>> }

CanvasRect == [left |-> 0, top |-> 0]

Min(a, b) == IF a < b THEN a ELSE b
Max(a, b) == IF a > b THEN a ELSE b

\* getMouseCoordinates of the createWebGLRenderer renderer
GetMouseCoordinates(client) ==
  <<Max(0, Min(CanvasWidth, client[1] - CanvasRect.left)),
    Max(0, Min(CanvasHeight, client[2] - CanvasRect.top))>>

\* getMousePosition: through the WebGL renderer when it is the current one
GetMousePosition(client) ==
  IF currentRenderer = "webgl"
    THEN GetMouseCoordinates(client)
    ELSE <<client[1] - CanvasRect.left, client[2] - CanvasRect.top>>

Abs(n) == IF n < 0 THEN -n ELSE n

\* Matter.Query.point([body], point).length > 0, for a body at angle 0: a
\* rectangle contains its border; a circle body is a polygon inscribed in
\* the circle
QueryPoint(body, point) ==
  IF body.type = "rectangle"
    THEN Abs(point[1] - body.x) <= body.half /\ Abs(point[2] - body.y) <= body.half
    ELSE (point[1] - body.x) * (point[1] - body.x)
           + (point[2] - body.y) * (point[2] - body.y) < body.half * body.half

\* the observation records while the last operation was of the other kind
NoPointer ==
  [event |-> "none", client |-> <<0, 0>>, active |-> FALSE, kept |-> TRUE]

NoCall == [op |-> "none", id |-> "", replaced |-> {}, returns |-> FALSE]

DragInit ==
  /\ objects = <<>>
  /\ world = [bodies |-> {}, constraints |-> {}]
  /\ dragConstraint = 0
  /\ isDragging = FALSE
  /\ currentRenderer = "2d"
  /\ pointer = NoPointer
  /\ call = NoCall

\* initApp: createBoundaries has added the four walls
ManagerInit ==
  /\ idCounter = 0
  /\ otherBodies = {"floor", "ceiling", "leftWall", "rightWall"}

\* the application starts with the WebGL renderer selected
SelectWebGL ==
  /\ currentRenderer = "2d"
  /\ objects = <<>>
  /\ pointer.event = "none"
  /\ call.op = "none"
  /\ currentRenderer' = "webgl"
  /\ UNCHANGED <<objects, world, dragConstraint, isDragging, pointer, call,
                 notDrag>>

\* an id no body in use carries
FreshBodyId ==
  LET used == world.bodies
                \cup { objects[i].body.id : i \in 1 .. Len(objects) }
                \cup { c.bodyA : c \in world.constraints }
  IN CHOOSE n \in 1 .. (Cardinality(used) + 1) : n \notin used

\* an id no constraint in use carries
FreshConstraintId ==
  LET used == { c.id : c \in world.constraints } \cup {dragConstraint}
  IN CHOOSE n \in 1 .. (Cardinality(used) + 1) : n \notin used

\* faulty variant: remove reports success whether or not the id is managed
RemoveResultAlwaysTrue(objs, w, id) ==
  LET found == { i \in 1 .. Len(objs) : objs[i].id = id } IN
    IF found = {}
      THEN [objects |-> objs, world |-> w, returns |-> TRUE]
      ELSE LET i == CHOOSE j \in found : TRUE IN
             [objects |-> RemoveAt(objs, i),
              world |-> IF objs[i].isAddedToWorld
                          THEN [w EXCEPT !.bodies = @ \ {objs[i].body.id}]
                          ELSE w,
              returns |-> TRUE]

\* objs and w after InteractiveWorld.remove(id): removeFromWorld, then delete
RemoveResult(objs, w, id) ==
  LET found == { i \in 1 .. Len(objs) : objs[i].id = id } IN
    IF found = {}
      THEN [objects |-> objs, world |-> w, returns |-> FALSE]
      ELSE LET i == CHOOSE j \in found : TRUE IN
             [objects |-> RemoveAt(objs, i),
              world |-> IF objs[i].isAddedToWorld
                          THEN [w EXCEPT !.bodies = @ \ {objs[i].body.id}]
                          ELSE w,
              returns |-> TRUE]

\* faulty variant: add overwrites the map entry without removing the object
\* that had the id
AddWithoutRemove(config) ==
  /\ LET body == [id |-> FreshBodyId, type |-> config.type, x |-> config.x,
                  y |-> config.y, half |-> config.half]
         block == [id |-> config.id, body |-> body,
                   isDraggable |-> config.isDraggable, isAddedToWorld |-> TRUE]
         old == { i \in 1 .. Len(objects) : objects[i].id = config.id }
     IN /\ objects' = IF old = {}
                         THEN Append(objects, block)
                         ELSE [i \in 1 .. Len(objects) |->
                                 IF i \in old THEN block ELSE objects[i]]
        /\ world' = [world EXCEPT !.bodies = @ \cup {body.id}]
        /\ call' = [op |-> "add", id |-> config.id,
                    replaced |-> { objects[i].body.id : i \in old },
                    returns |-> TRUE]
  /\ pointer' = NoPointer
  /\ UNCHANGED <<dragConstraint, isDragging, currentRenderer, notDrag>>

\* InteractiveWorld.add(new InteractiveBlock(config))
Add(config) ==
  /\ LET body == [id |-> FreshBodyId, type |-> config.type, x |-> config.x,
                  y |-> config.y, half |-> config.half]
         block == [id |-> config.id, body |-> body,
                   isDraggable |-> config.isDraggable, isAddedToWorld |-> TRUE]
         r == RemoveResult(objects, world, config.id)
     IN /\ objects' = Append(r.objects, block)
        /\ world' = [r.world EXCEPT !.bodies = @ \cup {body.id}]
        /\ call' = [op |-> "add", id |-> config.id,
                    replaced |-> { objects[i].body.id :
                                     i \in { j \in 1 .. Len(objects) :
                                               objects[j].id = config.id } },
                    returns |-> TRUE]
  /\ pointer' = NoPointer
  /\ UNCHANGED <<dragConstraint, isDragging, currentRenderer, notDrag>>

\* the partial configurations create is called with; a field that is not
\* provided is <<>>, a provided value v is <<v>>
CreateConfigs ==
  { [id |-> t[1], type |-> t[2], x |-> t[3], y |-> t[4], isDraggable |-> t[5]] :
      t \in { <<<<>>, <<>>, <<>>, <<>>, <<>>>>,
               <<<<>>, <<>>, <<0>>, <<240>>, <<>>>>,
               <<<<"interactive-1">>, <<"circle">>, <<340>>, <<250>>,
                 <<FALSE>>>> } }

\* `interactive-${n}`
GeneratedId(n) == "interactive-" \o ToString(n)

\* v || d, for a number field of a partial configuration: 0 is as good as
\* not provided
NumberOrDefault(v, d) == IF v = <<>> \/ v = <<0>> THEN d ELSE v[1]

\* v || d, for a string field: the empty string is as good as not provided
StringOrDefault(v, d) == IF v = <<>> \/ v = <<"">> THEN d ELSE v[1]

\* v !== undefined ? v : d
DefinedOrDefault(v, d) == IF v = <<>> THEN d ELSE v[1]

\* InteractiveWorld.create(config): generate the id, fill in the defaults
\* (width, height and radius are never provided here: 50, 50 and 25),
\* construct the block and add it
Create(config) ==
  /\ config.id = <<>> => idCounter < MaxGenerated
  /\ idCounter' = IF config.id = <<>> THEN idCounter + 1 ELSE idCounter
  /\ LET id == IF config.id = <<>> THEN GeneratedId(idCounter + 1)
                ELSE config.id[1]
         body == [id |-> FreshBodyId,
                  type |-> StringOrDefault(config.type, "rectangle"),
                  x |-> NumberOrDefault(config.x, CanvasWidth \div 2),
                  y |-> NumberOrDefault(config.y, CanvasHeight \div 2),
                  half |-> 25]
         block == [id |-> id, body |-> body,
                   isDraggable |-> DefinedOrDefault(config.isDraggable, TRUE),
                   isAddedToWorld |-> TRUE]
         r == RemoveResult(objects, world, id)
     IN /\ objects' = Append(r.objects, block)
        /\ world' = [r.world EXCEPT !.bodies = @ \cup {body.id}]
        /\ call' = [op |-> "create", id |-> id,
                    replaced |-> { objects[i].body.id :
                                     i \in { j \in 1 .. Len(objects) :
                                               objects[j].id = id } },
                    returns |-> TRUE]
  /\ pointer' = NoPointer
  /\ UNCHANGED <<dragConstraint, isDragging, currentRenderer, otherBodies,
                 notManager>>

\* the sand button adds a particle to the world
AddSand ==
  /\ "sand" \notin otherBodies
  /\ otherBodies' = otherBodies \cup {"sand"}
  /\ UNCHANGED <<dragVars, idCounter, notManager>>

\* InteractiveWorld.remove(id)
Remove(id) ==
  /\ LET r == RemoveResult(objects, world, id) IN
       /\ objects' = r.objects
       /\ world' = r.world
       /\ call' = [op |-> "remove", id |-> id, replaced |-> {},
                   returns |-> r.returns]
  /\ pointer' = NoPointer
  /\ UNCHANGED <<dragConstraint, isDragging, currentRenderer, notDrag>>

\* faulty variant: clear empties the map and leaves the bodies in the world
ClearKeepsBodies ==
  /\ objects' = <<>>
  /\ call' = [op |-> "clear", id |-> "",
              replaced |-> { objects[i].body.id : i \in 1 .. Len(objects) },
              returns |-> FALSE]
  /\ pointer' = NoPointer
  /\ UNCHANGED <<world, dragConstraint, isDragging, currentRenderer, notDrag>>

\* faulty variant: clear empties the whole physics world
ClearWholeWorld ==
  /\ world' = [world EXCEPT !.bodies = {}]
  /\ otherBodies' = {}
  /\ objects' = <<>>
  /\ call' = [op |-> "clear", id |-> "",
              replaced |-> { objects[i].body.id : i \in 1 .. Len(objects) },
              returns |-> FALSE]
  /\ pointer' = NoPointer
  /\ UNCHANGED <<dragConstraint, isDragging, currentRenderer, idCounter,
                 notManager>>

\* InteractiveWorld.clear()
Clear ==
  /\ world' = [world EXCEPT !.bodies =
                 @ \ { objects[i].body.id :
                         i \in { j \in 1 .. Len(objects) : objects[j].isAddedToWorld } }]
  /\ objects' = <<>>
  /\ call' = [op |-> "clear", id |-> "",
              replaced |-> { objects[i].body.id : i \in 1 .. Len(objects) },
              returns |-> FALSE]
  /\ pointer' = NoPointer
  /\ UNCHANGED <<dragConstraint, isDragging, currentRenderer, notDrag>>

\* the engine moves the body of a block
EngineStep ==
  /\ \E i \in 1 .. Len(objects), pos \in BlockPositions :
       /\ <<objects[i].body.x, objects[i].body.y>> # pos
       /\ objects' = [objects EXCEPT ![i].body.x = pos[1], ![i].body.y = pos[2]]
  /\ UNCHANGED <<world, dragConstraint, isDragging, currentRenderer, pointer,
                 call, notDrag>>

\* faulty variant: the hit test does not look at isDraggable
BodiesAtPointAnyBody(worldPos) ==
  { i \in 1 .. Len(objects) : QueryPoint(objects[i].body, worldPos) }

\* getDraggableBodies(), filtered by Matter.Query.point: indices into objects
BodiesAtPoint(worldPos) ==
  { i \in 1 .. Len(objects) :
      objects[i].isDraggable /\ QueryPoint(objects[i].body, worldPos) }

\* faulty variant: the first body under the pointer is taken, not the last
MouseDownFirstHit(client) ==
  LET worldPos == GetMousePosition(client)
      atPoint == BodiesAtPoint(worldPos)
  IN IF atPoint # {}
       THEN LET top == objects[CHOOSE i \in atPoint : \A j \in atPoint : i <= j]
                c == [id |-> FreshConstraintId, bodyA |-> top.body.id,
                      pointA |-> <<worldPos[1] - top.body.x,
                                   worldPos[2] - top.body.y>>,
                      pointB |-> worldPos]
            IN /\ Cardinality(world.constraints) < MaxConstraints
               /\ isDragging' = TRUE
               /\ dragConstraint' = c.id
               /\ world' = [world EXCEPT !.constraints = @ \cup {c}]
               /\ pointer' = [event |-> "mousedown", client |-> client,
                              active |-> dragConstraint # 0, kept |-> FALSE]
               /\ call' = NoCall
               /\ UNCHANGED <<objects, currentRenderer, notDrag>>
       ELSE /\ pointer' = [event |-> "mousedown", client |-> client,
                           active |-> dragConstraint # 0, kept |-> TRUE]
            /\ call' = NoCall
            /\ UNCHANGED <<objects, world, dragConstraint, isDragging,
                           currentRenderer, notDrag>>

\* the mousedown listener
MouseDown(client) ==
  LET worldPos == GetMousePosition(client)
      atPoint == BodiesAtPoint(worldPos)
  IN IF atPoint # {}
       THEN LET top == objects[CHOOSE i \in atPoint : \A j \in atPoint : j <= i]
                c == [id |-> FreshConstraintId, bodyA |-> top.body.id,
                      pointA |-> <<worldPos[1] - top.body.x,
                                   worldPos[2] - top.body.y>>,
                      pointB |-> worldPos]
            IN /\ Cardinality(world.constraints) < MaxConstraints
               /\ isDragging' = TRUE
               /\ dragConstraint' = c.id
               /\ world' = [world EXCEPT !.constraints = @ \cup {c}]
               /\ pointer' = [event |-> "mousedown", client |-> client,
                              active |-> dragConstraint # 0, kept |-> FALSE]
               /\ call' = NoCall
               /\ UNCHANGED <<objects, currentRenderer, notDrag>>
       ELSE /\ pointer' = [event |-> "mousedown", client |-> client,
                           active |-> dragConstraint # 0, kept |-> TRUE]
            /\ call' = NoCall
            /\ UNCHANGED <<objects, world, dragConstraint, isDragging,
                           currentRenderer, notDrag>>

\* faulty variant: a pointer-move also moves the body-side anchor
MouseMoveMovesAnchor(client) ==
  /\ IF ~isDragging \/ dragConstraint = 0
       THEN UNCHANGED world
       ELSE world' =
              [world EXCEPT !.constraints =
                 { IF c.id = dragConstraint
                     THEN [c EXCEPT !.pointB = GetMousePosition(client),
                                    !.pointA = <<0, 0>>]
                     ELSE c : c \in @ }]
  /\ pointer' = [event |-> "mousemove", client |-> client,
                 active |-> dragConstraint # 0, kept |-> TRUE]
  /\ call' = NoCall
  /\ UNCHANGED <<objects, dragConstraint, isDragging, currentRenderer, notDrag>>

\* the mousemove listener
MouseMove(client) ==
  /\ IF ~isDragging \/ dragConstraint = 0
       THEN UNCHANGED world
       ELSE world' =
              [world EXCEPT !.constraints =
                 { IF c.id = dragConstraint
                     THEN [c EXCEPT !.pointB = GetMousePosition(client)]
                     ELSE c : c \in @ }]
  /\ pointer' = [event |-> "mousemove", client |-> client,
                 active |-> dragConstraint # 0, kept |-> TRUE]
  /\ call' = NoCall
  /\ UNCHANGED <<objects, dragConstraint, isDragging, currentRenderer, notDrag>>

\* the mouseup listener
MouseUp ==
  /\ IF dragConstraint # 0
       THEN /\ world' = [world EXCEPT !.constraints =
                           { c \in @ : c.id # dragConstraint }]
            /\ dragConstraint' = 0
            /\ isDragging' = FALSE
       ELSE UNCHANGED <<world, dragConstraint, isDragging>>
  /\ pointer' = [event |-> "mouseup", client |-> <<0, 0>>,
                 active |-> dragConstraint # 0, kept |-> dragConstraint = 0]
  /\ call' = NoCall
  /\ UNCHANGED <<objects, currentRenderer, notDrag>>

DragNext ==
  \/ SelectWebGL
  \/ \E config \in BlockConfigs : Add(config)
  \/ \E id \in BlockIds : Remove(id)
  \/ Clear
  \/ EngineStep
  \/ \E client \in ClientPoints : MouseDown(client)
  \/ \E client \in ClientPoints : MouseMove(client)
  \/ MouseUp

\* C1: at most one drag constraint is in the physics world at any time, and
\* a pointer-down that arrives while a drag is active creates no constraint
\* and leaves the existing constraint and the stored reference unchanged.
C1_SingleDragConstraint ==
  /\ Cardinality(world.constraints) <= 1
  /\ (pointer.event = "mousedown" /\ pointer.active) => pointer.kept

(***************************************************************************)
(* Statements about the drag handlers                                       *)
(***************************************************************************)
\* clientX - rect.left, clientY - rect.top
CanvasRelative(client) ==
  <<client[1] - CanvasRect.left, client[2] - CanvasRect.top>>

\* the draggable objects whose shape contains pos, as indices into objects
DraggableUnder(pos) ==
  { i \in 1 .. Len(objects) :
      objects[i].isDraggable /\ QueryPoint(objects[i].body, pos) }

\* the last of a non-empty set of indices
Last(indices) == CHOOSE i \in indices : \A j \in indices : j <= i

\* a step of one of the three listeners
PointerEvent ==
  \/ \E client \in ClientPoints : MouseDown(client) \/ MouseMove(client)
  \/ MouseUp

\* the calls of the manager, with the engine running between them
ManagerNext ==
  \/ \E config \in BlockConfigs : Add(config)
  \/ \E config \in CreateConfigs : Create(config)
  \/ \E id \in BlockIds : Remove(id)
  \/ Clear
  \/ EngineStep
  \/ AddSand

\* C11: after any pointer-up the physics world holds no drag constraint, the
\* stored reference is null and the state is Idle; and no listener writes a
\* body (its position or velocity).
C11_IdleAfterMouseUp ==
  /\ [](pointer.event = "mouseup"
         => (world.constraints = {} /\ dragConstraint = 0 /\ ~isDragging))
  /\ [][PointerEvent => UNCHANGED objects]_vars

\* C12: a pointer-down whose world position lies in the shape of no
\* draggable body creates no constraint, adds nothing to the physics world
\* and leaves isDragging and the stored reference as they were.
C12_MissLeavesIdle ==
  [][\A client \in ClientPoints :
       (MouseDown(client) /\ DraggableUnder(GetMousePosition(client)) = {})
         => UNCHANGED <<world, dragConstraint, isDragging, objects>>]_vars

\* a pointer-down over a body that is not draggable has been handled and
\* the handlers are idle
C12_Witness ==
  /\ pointer.event = "mousedown"
  /\ pointer.kept
  /\ ~pointer.active
  /\ world.constraints = {}
  /\ dragConstraint = 0
  /\ \E i \in 1 .. Len(objects) :
       /\ ~objects[i].isDraggable
       /\ QueryPoint(objects[i].body, GetMousePosition(pointer.client))

\* C13: the body attached by a pointer-down is that of the last-inserted
\* object among the draggable objects whose shape contains the pointer's
\* world position; a pointer-down under which there is none attaches nothing.
C13_TopmostDraggable ==
  [][\A client \in ClientPoints :
       MouseDown(client) =>
         LET under == DraggableUnder(GetMousePosition(client)) IN
           IF under = {}
             THEN world'.constraints = world.constraints
             ELSE \E c \in world'.constraints \ world.constraints :
                    /\ world'.constraints = world.constraints \cup {c}
                    /\ c.id = dragConstraint'
                    /\ c.bodyA = objects[Last(under)].body.id
                    /\ objects[Last(under)].isDraggable]_vars

\* two draggable objects lie under the pointer and the pointer-down has
\* attached the one inserted last
C13_Witness ==
  /\ pointer.event = "mousedown"
  /\ ~pointer.kept
  /\ Len(objects) = 2
  /\ DraggableUnder(GetMousePosition(pointer.client)) = {1, 2}
  /\ \E c \in world.constraints :
       c.id = dragConstraint /\ c.bodyA = objects[2].body.id

\* C14: pointer-down sets pointA to the pointer's world position minus the
\* position of the body at that moment, and pointB to the world position; a
\* pointer-move while dragging sets pointB of the stored constraint to the
\* pointer's world position and changes nothing else; a pointer-move while
\* idle changes nothing.
C14_Anchors ==
  [][\A client \in ClientPoints :
       LET pos == GetMousePosition(client) IN
         /\ MouseDown(client) =>
              \A c \in world'.constraints \ world.constraints :
                \E i \in 1 .. Len(objects) :
                  /\ objects[i].body.id = c.bodyA
                  /\ c.pointA = <<pos[1] - objects[i].body.x,
                                  pos[2] - objects[i].body.y>>
                  /\ c.pointB = pos
         /\ MouseMove(client) =>
              /\ UNCHANGED <<dragConstraint, isDragging, objects>>
              /\ world'.bodies = world.bodies
              /\ IF isDragging /\ dragConstraint # 0
                   THEN world'.constraints =
                          { IF c.id = dragConstraint
                              THEN [c EXCEPT !.pointB = pos]
                              ELSE c : c \in world.constraints }
                   ELSE world'.constraints = world.constraints]_vars

\* a pointer-move has carried pointB of the stored constraint away from the
\* point where a body was grabbed off its centre
C14_Witness ==
  /\ pointer.event = "mousemove"
  /\ pointer.active
  /\ \E c \in world.constraints :
       /\ c.id = dragConstraint
       /\ c.pointA # <<0, 0>>
       /\ c.pointB = GetMousePosition(pointer.client)
       /\ \E i \in 1 .. Len(objects) :
            /\ objects[i].body.id = c.bodyA
            /\ c.pointB # <<objects[i].body.x + c.pointA[1],
                            objects[i].body.y + c.pointA[2]>>

\* C15: the world position the handlers use for a pointer event is the
\* canvas-relative position (clientX - rect.left, clientY - rect.top),
\* whichever renderer is active.
C15_SameWorldPosition ==
  pointer.event \in {"mousedown", "mousemove"}
    => GetMousePosition(pointer.client) = CanvasRelative(pointer.client)

(***************************************************************************)
(* Statements about the manager InteractiveWorld                            *)
(***************************************************************************)
\* the indices of the managed objects with the given id
Managed(id) == { i \in 1 .. Len(objects) : objects[i].id = id }

C17_RemoveUnmanaged ==
  [][\A id \in BlockIds :
       Remove(id) =>
         IF Managed(id) = {}
           THEN ~call'.returns /\ UNCHANGED <<objects, world>>
           ELSE call'.returns]_vars

\* remove has just returned false for an id that is not managed, while
\* another object is managed
C17_Witness ==
  /\ call.op = "remove"
  /\ ~call.returns
  /\ Managed(call.id) = {}
  /\ objects # <<>>

\* C18: the managed ids and the bodies in the physics world correspond one
\* to one: no id is managed twice, every managed object has isAddedToWorld
\* true and a body of its own, and the bodies in the world are exactly the
\* bodies of the managed objects.
C18_OneToOne ==
  /\ \A i, j \in 1 .. Len(objects) :
       (objects[i].id = objects[j].id \/ objects[i].body.id = objects[j].body.id)
         => i = j
  /\ \A i \in 1 .. Len(objects) : objects[i].isAddedToWorld
  /\ world.bodies = { objects[i].body.id : i \in 1 .. Len(objects) }

\* remove has just taken one of two managed objects, and its body, away
C18_Witness ==
  /\ call.op = "remove"
  /\ call.returns
  /\ Len(objects) = 1
  /\ world.bodies = {objects[1].body.id}
  /\ objects[1].body.id = 2

\* C28: every drag constraint in the physics world is attached to the body
\* of a currently managed object, and that body is in the world, whatever
\* the interleaving of pointer events with add, remove and clear.
C28_DragConstraintAttached ==
  \A c \in world.constraints :
    /\ c.bodyA \in world.bodies
    /\ \E i \in 1 .. Len(objects) : objects[i].body.id = c.bodyA

\* C30: over any sequence of run and stop calls, run called again without a
\* stop included, at most one frame callback is pending, and after stop no
\* frame callback is pending.
C30_OnePendingFrame ==
  /\ Cardinality(pendingFrames) <= 1
  /\ frame.op = "stop" => pendingFrames = {}

(***************************************************************************)
(*                          InteractiveBlock                                *)
(*                                                                          *)
(* A config is [type, width, height, radius, color, isStatic]; width,       *)
(* height and radius are <<>> when undefined, <<v>> otherwise.  A body is   *)
(* [id, type, size, color, isStatic], size being <<width, height>> or       *)
(* <<radius>>.  Updates are partial configs: every field is <<>> when not   *)
(* provided and <<v>> otherwise.                                            *)
(***************************************************************************)
\* the full configs blocks are constructed from
FullConfigs ==
  { [type |-> "rectangle", width |-> <<50>>, height |-> <<50>>,
     radius |-> <<>>, color |-> "blue", isStatic |-> FALSE],
    [type |-> "circle", width |-> <<>>, height |-> <<>>,
     radius |-> <<25>>, color |-> "blue", isStatic |-> FALSE] }

NoUpdate ==
  [type |-> <<>>, width |-> <<>>, height |-> <<>>, radius |-> <<>>,
   color |-> <<>>, isStatic |-> <<>>]

\* the updates updateProperties is called with
Updates ==
  { [NoUpdate EXCEPT !.type = <<"circle">>],
    [NoUpdate EXCEPT !.type = <<"circle">>, !.radius = <<30>>],
    [NoUpdate EXCEPT !.type = <<"rectangle">>],
    [NoUpdate EXCEPT !.width = <<60>>],
    [NoUpdate EXCEPT !.color = <<"red">>, !.isStatic = <<TRUE>>] }

NoBlockCall == [op |-> "none", threw |-> FALSE, rebuilt |-> FALSE]

BlockInit ==
  /\ interactiveBlock = <<>>
  /\ blockWorld = {}
  /\ blockCall = NoBlockCall

\* !v for a number field: undefined or 0
Missing(v) == v = <<>> \/ v = <<0>>

\* createBody throws: a rectangle without width or height, a circle
\* without radius (the type is one of the two here)
CreateBodyThrows(config) ==
  IF config.type = "rectangle"
    THEN Missing(config.width) \/ Missing(config.height)
    ELSE Missing(config.radius)

\* the body createBody returns, with the given id
CreateBody(config, id) ==
  [id |-> id, type |-> config.type,
   size |-> IF config.type = "rectangle"
              THEN <<config.width[1], config.height[1]>>
              ELSE <<config.radius[1]>>,
   color |-> config.color, isStatic |-> config.isStatic]

\* the id Matter gives the next body: one no body in use carries
FreshBlockBodyId ==
  LET used == blockWorld \cup { interactiveBlock[i].body.id : i \in 1 .. Len(interactiveBlock) }
  IN CHOOSE n \in 1 .. (Cardinality(used) + 1) : n \notin used

\* new InteractiveBlock(config)
NewBlock(config) ==
  /\ interactiveBlock = <<>>
  /\ ~CreateBodyThrows(config)
  /\ interactiveBlock' = <<[config |-> config, body |-> CreateBody(config, FreshBlockBodyId),
                 isAddedToWorld |-> FALSE, world |-> FALSE]>>
  /\ blockCall' = [NoBlockCall EXCEPT !.op = "new"]
  /\ UNCHANGED <<blockWorld, notBlock>>

\* block.addToWorld(world)
AddToWorld ==
  /\ interactiveBlock # <<>>
  /\ IF ~interactiveBlock[1].isAddedToWorld
       THEN /\ blockWorld' = blockWorld \cup {interactiveBlock[1].body.id}
            /\ interactiveBlock' = <<[interactiveBlock[1] EXCEPT !.isAddedToWorld = TRUE,
                                           !.world = TRUE]>>
       ELSE UNCHANGED <<interactiveBlock, blockWorld>>
  /\ blockCall' = [NoBlockCall EXCEPT !.op = "addToWorld"]
  /\ UNCHANGED notBlock

\* block.removeFromWorld()
RemoveFromWorld ==
  /\ interactiveBlock # <<>>
  /\ IF interactiveBlock[1].isAddedToWorld /\ interactiveBlock[1].world
       THEN /\ blockWorld' = blockWorld \ {interactiveBlock[1].body.id}
            /\ interactiveBlock' = <<[interactiveBlock[1] EXCEPT !.isAddedToWorld = FALSE,
                                           !.world = FALSE]>>
       ELSE UNCHANGED <<interactiveBlock, blockWorld>>
  /\ blockCall' = [NoBlockCall EXCEPT !.op = "removeFromWorld"]
  /\ UNCHANGED notBlock

\* { ...config, ...updates }
Merge(config, updates) ==
  [type |-> IF updates.type = <<>> THEN config.type ELSE updates.type[1],
   width |-> IF updates.width = <<>> THEN config.width ELSE updates.width,
   height |-> IF updates.height = <<>> THEN config.height ELSE updates.height,
   radius |-> IF updates.radius = <<>> THEN config.radius ELSE updates.radius,
   color |-> IF updates.color = <<>> THEN config.color ELSE updates.color[1],
   isStatic |-> IF updates.isStatic = <<>> THEN config.isStatic
                ELSE updates.isStatic[1]]

NeedsRebuild(updates) ==
  \/ updates.type # <<>>
  \/ updates.width # <<>>
  \/ updates.height # <<>>
  \/ updates.radius # <<>>

\* block.updateProperties(updates): merge the config; on a change of type or
\* size removeFromWorld, createBody, addToWorld; else write the body
UpdateProperties(updates) ==
  /\ interactiveBlock # <<>>
  /\ LET b == interactiveBlock[1]
         config == Merge(b.config, updates)
         wasInWorld == b.isAddedToWorld /\ b.world
         removed == IF wasInWorld
                      THEN [b EXCEPT !.config = config,
                                     !.isAddedToWorld = FALSE, !.world = FALSE]
                      ELSE [b EXCEPT !.config = config]
         without == IF wasInWorld THEN blockWorld \ {b.body.id} ELSE blockWorld
     IN IF NeedsRebuild(updates)
          THEN IF CreateBodyThrows(config)
                 THEN /\ interactiveBlock' = <<removed>>
                      /\ blockWorld' = without
                      /\ blockCall' = [op |-> "updateProperties",
                                       threw |-> TRUE, rebuilt |-> FALSE]
                 ELSE LET body == CreateBody(config, FreshBlockBodyId) IN
                      /\ interactiveBlock' =
                           <<[removed EXCEPT
                                !.body = body,
                                !.isAddedToWorld = wasInWorld,
                                !.world = wasInWorld]>>
                      /\ blockWorld' = IF wasInWorld
                                         THEN without \cup {body.id}
                                         ELSE without
                      /\ blockCall' = [op |-> "updateProperties",
                                       threw |-> FALSE, rebuilt |-> TRUE]
          ELSE /\ interactiveBlock' = <<[b EXCEPT !.config = config,
                                       !.body.color = config.color,
                                       !.body.isStatic = config.isStatic]>>
               /\ UNCHANGED blockWorld
               /\ blockCall' = [op |-> "updateProperties", threw |-> FALSE,
                                rebuilt |-> FALSE]
  /\ UNCHANGED notBlock

BlockNext ==
  \/ \E config \in FullConfigs : NewBlock(config)
  \/ AddToWorld
  \/ RemoveFromWorld
  \/ \E updates \in Updates : UpdateProperties(updates)

\* C26: updateProperties with a change of type or size replaces the body and
\* keeps world membership: a block that was in the world has its old body
\* out of the world, its new body in it and isAddedToWorld true; for a block
\* that was not, nothing is added; without such a change the body is kept
\* and only its colour and isStatic are written.
C26_RebuildKeepsMembership ==
  [][\A updates \in Updates :
       UpdateProperties(updates) =>
         LET old == interactiveBlock[1]
             new == interactiveBlock'[1]
         IN IF NeedsRebuild(updates)
              THEN /\ new.body.id # old.body.id
                   /\ IF old.isAddedToWorld
                        THEN /\ old.body.id \notin blockWorld'
                             /\ new.body.id \in blockWorld'
                             /\ new.isAddedToWorld
                        ELSE /\ blockWorld' = blockWorld
                             /\ ~new.isAddedToWorld
              ELSE /\ new.body = [old.body EXCEPT
                                    !.color = new.config.color,
                                    !.isStatic = new.config.isStatic]
                   /\ blockWorld' = blockWorld
                   /\ new.isAddedToWorld = old.isAddedToWorld]_vars

\* C29: an updateProperties call that raises an error leaves the block as
\* it was: same config, same body, same isAddedToWorld, and the world holds
\* the same bodies.
C29_FailedUpdateChangesNothing ==
  [][\A updates \in Updates :
       (UpdateProperties(updates) /\ blockCall'.threw)
         => UNCHANGED <<interactiveBlock, blockWorld>>]_vars

(***************************************************************************)
(*                 THE APPLICATION: initializeRenderer                      *)
(*                                                                          *)
(* initApp chooses the back-end and calls initializeRenderer, which starts  *)
(* the renderer inside a try block and, when anything in the block throws,  *)
(* selects the other back-end and calls itself again.                       *)
(***************************************************************************)
RendererTypes == {"2d", "webgl"}

Other(rendererType) == IF rendererType = "2d" THEN "webgl" ELSE "2d"

NoLoops == [b \in RendererTypes |-> 0]

NoAppCall ==
  [op |-> "none", rendererType |-> "none", outcome |-> "none",
   loopsBefore |-> 0]

\* the page has just loaded: DOMContentLoaded has not fired yet
AppInit ==
  /\ initPending = "none"
  /\ render2D = FALSE
  /\ renderWebGL = FALSE
  /\ canvasContext = "none"
  /\ activeLoops = NoLoops
  /\ lastFrameOf = "none"
  /\ inits = 0
  /\ appCall = NoAppCall

\* the render loops with a frame callback pending, of all back-ends
LoopCount(loops) == loops["2d"] + loops["webgl"]

\* initApp: window.currentRenderer = currentRenderer;
\* initializeRenderer(currentRenderer, engine, canvas, container)
InitApp(rendererType) ==
  /\ appCall.op = "none"
  /\ currentRenderer' = rendererType
  /\ initPending' = rendererType
  /\ appCall' = [NoAppCall EXCEPT !.op = "initApp",
                                  !.rendererType = rendererType]
  /\ UNCHANGED <<render2D, renderWebGL, canvasContext, activeLoops,
                 lastFrameOf, inits, notApp>>

\* how far the try block of initializeRenderer can get:
\*   "create"  creating the renderer throws; a canvas that has handed out a
\*             context of the other type has none of this type to give
\*   "run"     the renderer is created and its loop has requested its first
\*             frame when the first updateScene / render throws (the WebGL
\*             update requests the frame before it does either)
\*   "done"    the block completes
Outcomes(rendererType) ==
  IF canvasContext = Other(rendererType) THEN {"create"}
  ELSE IF rendererType = "webgl" THEN {"create", "run", "done"}
  ELSE {"create", "done"}

\* the catch block: window.currentRenderer = <other>;
\* initializeRenderer(<other>, engine, canvas, container)
Fallback(rendererType) ==
  /\ currentRenderer' = Other(rendererType)
  /\ initPending' = Other(rendererType)

\* one execution of initializeRenderer(rendererType, ...), rendererType
\* being the back-end of the outstanding call
InitializeRenderer(outcome) ==
  /\ initPending # "none"
  /\ inits < MaxInits
  /\ outcome \in Outcomes(initPending)
  /\ inits' = inits + 1
  /\ appCall' = [op |-> "initializeRenderer", rendererType |-> initPending,
                 outcome |-> outcome, loopsBefore |-> LoopCount(activeLoops)]
  /\ IF outcome = "create"
       THEN /\ Fallback(initPending)
            /\ UNCHANGED <<render2D, renderWebGL, canvasContext, activeLoops>>
       ELSE /\ canvasContext' = initPending
            /\ activeLoops' = [activeLoops EXCEPT ![initPending] = @ + 1]
            /\ IF outcome = "run"
                 THEN \* window.renderWebGL is assigned, window.render2D is
                      \* not reached
                      /\ Fallback(initPending)
                      /\ renderWebGL' = TRUE
                      /\ UNCHANGED render2D
                 ELSE /\ render2D' = (initPending = "2d")
                      /\ renderWebGL' = (initPending = "webgl")
                      /\ initPending' = "none"
                      /\ UNCHANGED currentRenderer
  /\ UNCHANGED <<lastFrameOf, notApp>>

\* the browser runs the pending frame callback of a render loop, which
\* requests the next frame and draws on the canvas
AnimationFrame(rendererType) ==
  /\ activeLoops[rendererType] > 0
  /\ lastFrameOf' = rendererType
  /\ appCall' = [NoAppCall EXCEPT !.op = "frame",
                                  !.rendererType = rendererType]
  /\ UNCHANGED <<initPending, render2D, renderWebGL, canvasContext,
                 activeLoops, inits, currentRenderer, notApp>>

\* rendererSelect "change": the page reloads with ?renderer=newRenderer, and
\* initApp runs again on the new page
RendererSelectChange(newRenderer) ==
  /\ appCall.op # "none"
  /\ render2D' = FALSE
  /\ renderWebGL' = FALSE
  /\ canvasContext' = "none"
  /\ activeLoops' = NoLoops
  /\ lastFrameOf' = "none"
  /\ inits' = 0
  /\ currentRenderer' = newRenderer
  /\ initPending' = newRenderer
  /\ appCall' = [NoAppCall EXCEPT !.op = "reload",
                                  !.rendererType = newRenderer]
  /\ UNCHANGED notApp

AppNext ==
  \/ \E rendererType \in RendererTypes : InitApp(rendererType)
  \/ \E outcome \in {"create", "run", "done"} : InitializeRenderer(outcome)
  \/ \E rendererType \in RendererTypes : AnimationFrame(rendererType)
  \/ \E newRenderer \in RendererTypes : RendererSelectChange(newRenderer)

\* C20: at most one render loop is active on the canvas at any time, and
\* initializeRenderer starts a renderer, first choice or fallback, only when
\* no renderer started earlier on the page is still running.
C20_SingleRenderLoop ==
  /\ LoopCount(activeLoops) <= 1
  /\ (appCall.op = "initializeRenderer" /\ appCall.outcome # "create")
       => appCall.loopsBefore = 0

\* C21: initializeRenderer tries two back-ends at most after a page load:
\* the requested one and, when it fails, the other one once; when the
\* fallback fails too, no call of initializeRenderer is outstanding.
C21_AtMostTwoBackends ==
  /\ inits <= 2
  /\ (inits = 2 /\ appCall.op = "initializeRenderer"
        /\ appCall.outcome # "done") => initPending = "none"

\* C24: create places the new object at the x and y of the config whenever
\* they are provided, 0 included, and at the canvas centre only for a
\* coordinate that is not provided; type and isDraggable take their defaults
\* only when not provided.
C24_CreateDefaults ==
  [][\A config \in CreateConfigs :
       Create(config) =>
         LET new == objects'[Len(objects')] IN
           /\ new.body.x = IF config.x = <<>> THEN CanvasWidth \div 2
                           ELSE config.x[1]
           /\ new.body.y = IF config.y = <<>> THEN CanvasHeight \div 2
                           ELSE config.y[1]
           /\ new.body.type = IF config.type = <<>> THEN "rectangle"
                              ELSE config.type[1]
           /\ new.isDraggable = IF config.isDraggable = <<>> THEN TRUE
                                ELSE config.isDraggable[1]]_vars

\* C25: the id create generates for a config without id is the id of no
\* managed object: the call adds one object to the map and replaces none.
C25_GeneratedIdsUnique ==
  [][\A config \in CreateConfigs :
       (Create(config) /\ config.id = <<>>) =>
         /\ Managed(call'.id) = {}
         /\ call'.replaced = {}
         /\ Len(objects') = Len(objects) + 1]_vars

\* C27: clear removes the body of every managed object from the physics
\* world and empties the map; the bodies no block owns (walls, sand) and
\* the constraints stay as they are.
C27_ClearFrame ==
  [][Clear =>
       /\ objects' = <<>>
       /\ world'.bodies
            = world.bodies \ { objects[i].body.id : i \in 1 .. Len(objects) }
       /\ \A i \in 1 .. Len(objects) : objects[i].body.id \notin world'.bodies
       /\ world'.constraints = world.constraints
       /\ otherBodies' = otherBodies]_vars

\* clear has just removed two managed bodies from a world that also holds
\* the walls and a sand particle
C27_Witness ==
  /\ call.op = "clear"
  /\ Cardinality(call.replaced) = 2
  /\ objects = <<>>
  /\ world.bodies = {}
  /\ "sand" \in otherBodies
  /\ "floor" \in otherBodies

Init ==
  /\ SandInit
  /\ WorldInit
  /\ RenderInit
  /\ LegacyInit
  /\ DragInit
  /\ ManagerInit
  /\ BlockInit
  /\ AppInit

SpecSand == Init /\ [][SandNext]_vars

\* dropSand runs to completion once started: it is synchronous code
SpecSandFair == SpecSand /\ WF_vars(SandStep)

SpecButton == Init /\ [][ButtonNext]_vars

SpecRender == Init /\ [][RenderNext]_vars

SpecLoop == Init /\ [][LoopNext]_vars

SpecLegacy == Init /\ [][LegacyNext]_vars

SpecDrag == Init /\ [][DragNext]_vars

SpecManager == Init /\ [][ManagerNext]_vars

SpecBlock == Init /\ [][BlockNext]_vars

SpecApp == Init /\ [][AppNext]_vars

====
